---- MODULE Spec2Model ----
(***************************************************************************)
(* Model of the kinematic feature engine (utils_features.py) and of the    *)
(* /analyze-from-storage dispatch (main.py).                               *)
(*                                                                         *)
(* Numbers.  Python floats are modelled as exact fixed-point numbers: a    *)
(* coordinate v is carried as the integer v * Den / eps, i.e. the unit of  *)
(* a raw input coordinate is eps = 1e-6 pixel and Den is the common        *)
(* denominator of every window mean, so x_sum / c is exact.  Lengths       *)
(* (math.hypot) are carried as their squares; angles (acos, atan2) as the  *)
(* arguments that determine them.  Floating-point rounding is not          *)
(* modelled.                                                               *)
(*                                                                         *)
(* Lists.  A Python list is a TLA+ sequence; Python index i is i + 1.      *)
(***************************************************************************)
EXTENDS Integers, Sequences, FiniteSets, TLC

\* ------------------------------------------------------------------ bounds
\* longest short keypoint sequence
MaxT == 4
\* one long sequence, where the +12 / -24 defaults do not saturate
LongT == 100
\* longest phase list
MaxMarks == 2
\* longest series and largest window size handed to moving_average alone
MaxLen == 4
MaxK == 5
\* requests posted to /analyze-from-storage
MaxReq == 2

\* --------------------------------------------------------- program constants
\* window size of track()
SmoothK == 5
\* default offsets of the follow-through and unit-turn anchors
FollowOffset == 12
UnitOffset == 24
\* eps of _normalize, in units of eps (the unit of a raw coordinate)
Eps == 1

\* ------------------------------------------------------------- arithmetic
Max(a, b) == IF a >= b THEN a ELSE b
Min(a, b) == IF a <= b THEN a ELSE b
Abs(a) == IF a < 0 THEN -a ELSE a

RECURSIVE Gcd(_, _)
Gcd(a, b) == IF b = 0 THEN a ELSE Gcd(b, a % b)

RECURSIVE LcmUpTo(_)
LcmUpTo(n) == IF n <= 1 THEN 1 ELSE LET l == LcmUpTo(n - 1) IN (l * n) \div Gcd(l, n)

\* the widest window moving_average can form for k <= MaxK is 2 * (k // 2) + 1
MaxWin == 2 * (Max(MaxK, SmoothK) \div 2) + 1
\* common denominator of the fixed-point representation
Den == LcmUpTo(MaxWin)
\* a whole number of eps as a fixed-point value
Fix(n) == n * Den
\* float division x_sum / c (exact on the inputs of this model)
FDiv(a, c) == a \div c

\* Python list indexing s[i]
At(s, i) == s[i + 1]

\* ------------------------------------------------------------ the MP table
MP == [left_shoulder |-> 11, right_shoulder |-> 12,
       left_elbow |-> 13, right_elbow |-> 14,
       left_wrist |-> 15, right_wrist |-> 16,
       left_hip |-> 23, right_hip |-> 24]

Tracked == {MP[n] : n \in DOMAIN MP}

\* ----------------------------------------------------- geometry primitives
\* _dist, as the square of math.hypot
Dist2(a, b) == (a[1] - b[1]) * (a[1] - b[1]) + (a[2] - b[2]) * (a[2] - b[2])

\* _angle_at(q, p, r): None when a vector has zero length, else the angle whose
\* cosine is dot / sqrt(n1sq * n2sq)
AngleAt(q, p, r) ==
    LET v1 == <<p[1] - q[1], p[2] - q[2]>>
        v2 == <<r[1] - q[1], r[2] - q[2]>>
        n1sq == v1[1] * v1[1] + v1[2] * v1[2]
        n2sq == v2[1] * v2[1] + v2[2] * v2[2]
    IN IF n1sq = 0 \/ n2sq = 0
       THEN [none |-> TRUE]
       ELSE [none |-> FALSE, dot |-> v1[1] * v2[1] + v1[2] * v2[2],
             n1sq |-> n1sq, n2sq |-> n2sq]

\* _shoulder_line_angle_deg: 0.0 for coincident points, else degrees(atan2(dy, dx))
ShoulderLineAngleDeg(left_sh, right_sh) ==
    LET dx == right_sh[1] - left_sh[1]
        dy == right_sh[2] - left_sh[2]
    IN IF dx = 0 /\ dy = 0
       THEN [zero |-> TRUE]
       ELSE [zero |-> FALSE, dy |-> dy, dx |-> dx]

\* abs() of a heading: |atan2(dy, dx)| = atan2(|dy|, dx)
AbsAngle(a) == IF a.zero THEN a ELSE [zero |-> FALSE, dy |-> Abs(a.dy), dx |-> a.dx]

\* _normalize with the guard at "at or above eps" (faulty variant)
NormalizeGe(value, seg_len2) ==
    [num |-> value,
     den |-> IF seg_len2 >= Fix(Eps) * Fix(Eps) THEN [one |-> FALSE, len2 |-> seg_len2]
                                                ELSE [one |-> TRUE]]

\* _normalize: value over the segment length when it is above eps, else over
\* 1.0; the quotient is carried as numerator and denominator
Normalize(value, seg_len2) ==
    [num |-> value,
     den |-> IF seg_len2 > Fix(Eps) * Fix(Eps) THEN [one |-> FALSE, len2 |-> seg_len2]
                                               ELSE [one |-> TRUE]]

\* ---------------------------------------------------------- moving_average
\* the inner loop: x_sum, y_sum and c over j in range(lo, hi)
RECURSIVE WindowSum(_, _, _, _)
WindowSum(series, j, hi, acc) ==
    IF j >= hi THEN acc
    ELSE WindowSum(series, j + 1, hi,
                   [x_sum |-> acc.x_sum + At(series, j)[1],
                    y_sum |-> acc.y_sum + At(series, j)[2],
                    c |-> acc.c + 1])

\* the window ending one sample early (faulty variant)
WindowMeanShort(series, half, i) ==
    LET w == WindowSum(series, Max(0, i - half), Min(Len(series), i + half),
                       [x_sum |-> 0, y_sum |-> 0, c |-> 0])
    IN <<FDiv(w.x_sum, w.c), FDiv(w.y_sum, w.c)>>

\* one pass of the outer loop: the point appended for index i
WindowMean(series, half, i) ==
    LET w == WindowSum(series, Max(0, i - half), Min(Len(series), i + half + 1),
                       [x_sum |-> 0, y_sum |-> 0, c |-> 0])
    IN <<FDiv(w.x_sum, w.c), FDiv(w.y_sum, w.c)>>

moving_average(series, k) ==
    IF k <= 1 THEN series
    ELSE [i \in 1..Len(series) |-> WindowMean(series, k \div 2, i - 1)]

\* ------------------------------------------------------------ phase anchors
\* str.lower() on the labels of this model
Lower(s) ==
    CASE s = "CONTACT" -> "contact"
      [] s = "Contact" -> "contact"
      [] s = "Follow_Through" -> "follow_through"
      [] s = "UNIT_TURN" -> "unit_turn"
      [] OTHER -> s

\* dict.get(key, default)
Get(d, key, default) == IF key \in DOMAIN d THEN d[key] ELSE default

\* frame_of returning the last matching mark (faulty variant)
RECURSIVE FrameOfLast(_, _, _, _)
FrameOfLast(phs, i, name, default) ==
    IF i > Len(phs) THEN default
    ELSE LET rest == FrameOfLast(phs, i + 1, name, default)
         IN IF Lower(Get(phs[i], "phase", "")) = Lower(name)
               /\ ~(\E j \in (i + 1)..Len(phs) : Lower(Get(phs[j], "phase", "")) = Lower(name))
            THEN Get(phs[i], "frame", default)
            ELSE rest

\* frame_of: the loop over phases from position i on; the first match returns
RECURSIVE FrameOfFrom(_, _, _, _)
FrameOfFrom(phs, i, name, default) ==
    IF i > Len(phs) THEN default
    ELSE IF Lower(Get(phs[i], "phase", "")) = Lower(name)
         THEN Get(phs[i], "frame", default)
         ELSE FrameOfFrom(phs, i + 1, name, default)

frame_of(phs, name, default) == FrameOfFrom(phs, 1, name, default)

\* the clamp without its floor at 0 (faulty variant)
ClampNoFloor(n, f) == Min(n - 1, f)

\* max(0, min(T-1, f))

Clamp(n, f) == Max(0, Min(n - 1, f))

\* the defaults handed to frame_of
ContactDefault(n) == n \div 2

FollowDefault(n, fc) == Min(n - 1, fc + FollowOffset)

\* the unit-turn default 12 frames before contact (faulty variant)
UnitDefaultShort(fc) == Max(0, fc - FollowOffset)

UnitDefault(fc) == Max(0, fc - UnitOffset)

ContactAnchor(n, phs) == Clamp(n, frame_of(phs, "contact", ContactDefault(n)))

FollowAnchor(n, phs, fc) == Clamp(n, frame_of(phs, "follow_through", FollowDefault(n, fc)))

UnitAnchor(n, phs, fc) == Clamp(n, frame_of(phs, "unit_turn", UnitDefault(fc)))

\* timing_frames without its floor at 0 (faulty variant)
TimingFramesRaw(fc, fu) == fc - fu

\* timing_frames

TimingFrames(fc, fu) == Max(0, fc - fu)

\* ------------------------------------------------------------------ state
VARIABLES
    \* compute_features_from_keypoints: arguments
    kps_xy, phases, fps, right_handed,
    \* position in the function body, and its locals
    pc, T, tracks, f_contact, f_follow, f_unit, contact_loc, follow_loc,
    \* what the call has read so far: a subset of {"frames", "phases"}
    touched,
    \* the returned bundle, or the exception that left the function
    result, raised,
    \* moving_average called alone: arguments, position, return value
    ma_series, ma_k, ma_pc, ma_out,
    \* /analyze-from-storage: the admin client, the update calls that raise,
    \* the videos rows, the requests, and the update calls made for each request
    supabase_admin, db_fault, row, reqs, updates

featVars == <<kps_xy, phases, fps, right_handed, pc, T, tracks, f_contact, f_follow,
              f_unit, contact_loc, follow_loc, touched, result, raised>>
maVars == <<ma_series, ma_k, ma_pc, ma_out>>
storeVars == <<supabase_admin, db_fault, row, reqs, updates>>
vars == <<featVars, maVars, storeVars>>

\* a local not yet assigned
Unset == [unset |-> TRUE]

FeatIdle ==
    /\ kps_xy = <<>> /\ phases = <<>> /\ fps = 0 /\ right_handed = TRUE
    /\ pc = "idle" /\ T = 0 /\ tracks = Unset
    /\ f_contact = 0 /\ f_follow = 0 /\ f_unit = 0
    /\ contact_loc = Unset /\ follow_loc = Unset
    /\ touched = {} /\ result = Unset /\ raised = "none"

MaIdle == ma_series = <<>> /\ ma_k = 0 /\ ma_pc = "idle" /\ ma_out = <<>>

StoreIdle ==
    /\ supabase_admin = FALSE /\ db_fault = {}
    /\ row = Unset /\ reqs = <<>> /\ updates = <<>>

\* ----------------------------------------------------------------- inputs
\* keypoint positions, in whole eps
Pose(p) ==
    CASE p = "open" ->
           (11 :> <<0, 1>>) @@ (12 :> <<4, 1>>) @@ (13 :> <<0, 3>>) @@ (14 :> <<4, 3>>)
           @@ (15 :> <<1, 5>>) @@ (16 :> <<6, 4>>) @@ (23 :> <<1, 6>>) @@ (24 :> <<3, 6>>)
      [] p = "tucked" ->
           \* right forearm 0, right upper arm exactly eps;
           \* left forearm exactly eps, left upper arm 0
           (11 :> <<0, 3>>) @@ (12 :> <<4, 1>>) @@ (13 :> <<0, 3>>) @@ (14 :> <<4, 2>>)
           @@ (15 :> <<1, 3>>) @@ (16 :> <<4, 2>>) @@ (23 :> <<1, 6>>) @@ (24 :> <<3, 6>>)
      [] p = "square" ->
           \* both shoulders at one point
           (11 :> <<2, 1>>) @@ (12 :> <<2, 1>>) @@ (13 :> <<1, 3>>) @@ (14 :> <<3, 3>>)
           @@ (15 :> <<1, 5>>) @@ (16 :> <<5, 2>>) @@ (23 :> <<1, 6>>) @@ (24 :> <<3, 6>>)

Poses == {"open", "tucked", "square"}

\* displacement per frame, in whole eps
Vel(v) ==
    CASE v = "still" -> [idx \in Tracked |-> <<0, 0>>]
      [] v = "swing" ->
           (11 :> <<0, 0>>) @@ (12 :> <<0, 1>>) @@ (13 :> <<1, 0>>) @@ (14 :> <<0, 1>>)
           @@ (15 :> <<0, 2>>) @@ (16 :> <<2, 0>>) @@ (23 :> <<1, 0>>) @@ (24 :> <<0, 0>>)

Vels == {"still", "swing"}

\* a swing moves during the first frames only, so coordinates stay small
Moved(t) == Min(t, MaxT)

\* the frame at time t: a dict from joint index to point; hole = <<t, idx>> drops
\* joint idx from frame t, hole = <<>> drops nothing
FrameAt(p, v, hole, t) ==
    [idx \in (IF hole # <<>> /\ hole[1] = t THEN Tracked \ {hole[2]} ELSE Tracked) |->
        <<Fix(Pose(p)[idx][1] + Moved(t) * Vel(v)[idx][1]),
          Fix(Pose(p)[idx][2] + Moved(t) * Vel(v)[idx][2])>>]

Frames(n, p, v, hole) == [i \in 1..n |-> FrameAt(p, v, hole, i - 1)]

HoleJoints == {MP.right_shoulder, MP.left_wrist}
Holes(n) == {<<>>} \cup {<<t, idx>> : t \in 0..(n - 1), idx \in HoleJoints}

Labels == {"contact", "CONTACT", "follow_through", "UNIT_TURN"}
FrameVals == {-1, 30, 150}
\* marks with both keys, a mark without "frame" and a mark without "phase"
Marks ==
    {[frame |-> f, phase |-> l] : f \in FrameVals, l \in Labels}
    \cup {[phase |-> "contact"]}
    \cup {[frame |-> 30]}
PhaseLists == UNION {[1..n -> Marks] : n \in 0..MaxMarks}

FewPhaseLists ==
    {<<>>,
     <<[frame |-> 1, phase |-> "contact"]>>,
     <<[frame |-> 0, phase |-> "Contact"], [frame |-> 1, phase |-> "Follow_Through"]>>,
     <<[frame |-> 2, phase |-> "contact"], [frame |-> 0, phase |-> "follow_through"]>>}

Lengths == {0, 1, MaxT, LongT}
FpsVals == {24, 30}

\* the calls of the model: every phase list on one complete swing of every
\* length; every pose, motion, dropped joint and side on the short lengths; and
\* the long swing with a joint dropped from its first frame
Calls ==
    {[n |-> n, pose |-> "open", vel |-> "swing", hole |-> <<>>, rh |-> TRUE,
      fps |-> 30, phs |-> phs] : n \in Lengths, phs \in PhaseLists}
    \cup
    UNION {{[n |-> n, pose |-> p, vel |-> v, hole |-> h, rh |-> rh, fps |-> f, phs |-> phs] :
              p \in Poses, v \in Vels, h \in Holes(n), rh \in BOOLEAN, f \in FpsVals,
              phs \in FewPhaseLists} : n \in 0..MaxT}
    \cup
    {[n |-> LongT, pose |-> "open", vel |-> "swing", hole |-> h, rh |-> rh, fps |-> 30,
      phs |-> phs] : h \in Holes(1) \ {<<>>}, rh \in BOOLEAN, phs \in FewPhaseLists}

\* ------------------------------------------- compute_features_from_keypoints
\* a neutral bundle that reports a timing of 0 (faulty variant)
NeutralBundleTimed(f) ==
    [meta |-> [fps |-> f], contact |-> <<>>, follow_through |-> <<>>,
     timing |-> [unit_turn_to_contact_frames |-> 0]]

\* the bundle returned for an empty sequence
NeutralBundle(f) ==
    [meta |-> [fps |-> f], contact |-> <<>>, follow_through |-> <<>>, timing |-> <<>>]

\* track(idx): the list comprehension raises KeyError when a frame lacks idx
CanTrack(kps, n, idx) == \A t \in 1..n : idx \in DOMAIN kps[t]

track(kps, n, idx) == moving_average([t \in 1..n |-> kps[t][idx]], SmoothK)

\* the side chosen for the wrist, elbow and shoulder, and for the lead hip
LeadWrist(rh) == IF rh THEN MP.right_wrist ELSE MP.left_wrist
LeadElbow(rh) == IF rh THEN MP.right_elbow ELSE MP.left_elbow
LeadShoulder(rh) == IF rh THEN MP.right_shoulder ELSE MP.left_shoulder
LeadHip(rh) == IF rh THEN MP.left_hip ELSE MP.right_hip

\* the locals assigned from the side choice to elbow_flex_deg
ContactLocals(tr, rh, fc) ==
    LET WR_c == At(tr[LeadWrist(rh)], fc)
        EL_c == At(tr[LeadElbow(rh)], fc)
        SH_c == At(tr[LeadShoulder(rh)], fc)
        LEAD_HIP_c == At(tr[LeadHip(rh)], fc)
        forearm_len == Dist2(EL_c, WR_c)
        upperarm_len == Dist2(SH_c, EL_c)
        forward_px == WR_c[1] - LEAD_HIP_c[1]
        shoulder_angle == ShoulderLineAngleDeg(At(tr[MP.left_shoulder], fc),
                                               At(tr[MP.right_shoulder], fc))
    IN [WR_c |-> WR_c, EL_c |-> EL_c, SH_c |-> SH_c, LEAD_HIP_c |-> LEAD_HIP_c,
        forearm_len |-> forearm_len, upperarm_len |-> upperarm_len,
        forward_px |-> forward_px,
        contact_forward_norm |-> Normalize(Abs(forward_px), forearm_len),
        torso_rotation_deg |-> AbsAngle(shoulder_angle),
        elbow_flex_deg |-> AngleAt(EL_c, SH_c, WR_c)]

\* the follow-through locals with the upper arm re-measured at the
\* follow-through frame (faulty variant)
FollowLocalsRemeasured(tr, rh, ff, upperarm_len) ==
    LET WR_f == At(tr[LeadWrist(rh)], ff)
        SH_f == At(tr[LeadShoulder(rh)], ff)
        hand_rel_sh == -(WR_f[2] - SH_f[2])
    IN [WR_f |-> WR_f, SH_f |-> SH_f, hand_rel_sh |-> hand_rel_sh,
        follow_through_height_norm |->
            Normalize(hand_rel_sh, Dist2(SH_f, At(tr[LeadElbow(rh)], ff)))]

\* the follow-through locals; upperarm_len is the one measured at contact
FollowLocals(tr, rh, ff, upperarm_len) ==
    LET WR_f == At(tr[LeadWrist(rh)], ff)
        SH_f == At(tr[LeadShoulder(rh)], ff)
        hand_rel_sh == -(WR_f[2] - SH_f[2])
    IN [WR_f |-> WR_f, SH_f |-> SH_f, hand_rel_sh |-> hand_rel_sh,
        follow_through_height_norm |-> Normalize(hand_rel_sh, upperarm_len)]

\* the returned dict
Bundle(cl, fl, timing_frames, f, rh) ==
    [contact |-> [forward_offset_norm |-> cl.contact_forward_norm,
                  torso_rotation_deg |-> cl.torso_rotation_deg,
                  elbow_flex_deg |-> cl.elbow_flex_deg],
     follow_through |-> [hand_height_norm |-> fl.follow_through_height_norm],
     timing |-> [unit_turn_to_contact_frames |-> timing_frames],
     meta |-> [fps |-> f, right_handed |-> rh,
               norm_segments_px |-> [forearm |-> cl.forearm_len,
                                     upperarm |-> cl.upperarm_len]]]

\* T = len(kps_xy); the early return for T == 0
Entry ==
    /\ pc = "call"
    /\ T' = Len(kps_xy)
    /\ IF Len(kps_xy) = 0
       THEN result' = NeutralBundle(fps) /\ pc' = "done"
       ELSE result' = result /\ pc' = "tracks"
    /\ UNCHANGED <<kps_xy, phases, fps, right_handed, tracks, f_contact, f_follow, f_unit,
                   contact_loc, follow_loc, touched, raised>>
    /\ UNCHANGED <<maVars, storeVars>>

\* the eight smoothed tracks, or the KeyError of the first frame lacking a joint
SmoothTracks ==
    /\ pc = "tracks"
    /\ touched' = touched \cup {"frames"}
    /\ IF \A idx \in Tracked : CanTrack(kps_xy, T, idx)
       THEN /\ tracks' = [idx \in Tracked |-> track(kps_xy, T, idx)]
            /\ pc' = "anchors"
            /\ raised' = raised
       ELSE /\ tracks' = tracks
            /\ pc' = "raised"
            /\ raised' = "KeyError"
    /\ UNCHANGED <<kps_xy, phases, fps, right_handed, T, f_contact, f_follow, f_unit,
                   contact_loc, follow_loc, result>>
    /\ UNCHANGED <<maVars, storeVars>>

\* f_contact, f_follow, f_unit
ResolveAnchors ==
    /\ pc = "anchors"
    /\ touched' = touched \cup {"phases"}
    /\ f_contact' = ContactAnchor(T, phases)
    /\ f_follow' = FollowAnchor(T, phases, f_contact')
    /\ f_unit' = UnitAnchor(T, phases, f_contact')
    /\ pc' = "contact"
    /\ UNCHANGED <<kps_xy, phases, fps, right_handed, T, tracks, contact_loc, follow_loc,
                   result, raised>>
    /\ UNCHANGED <<maVars, storeVars>>

\* side choice, segment lengths and the three contact features
ContactFeatures ==
    /\ pc = "contact"
    /\ contact_loc' = ContactLocals(tracks, right_handed, f_contact)
    /\ pc' = "follow"
    /\ UNCHANGED <<kps_xy, phases, fps, right_handed, T, tracks, f_contact, f_follow,
                   f_unit, follow_loc, touched, result, raised>>
    /\ UNCHANGED <<maVars, storeVars>>

\* the follow-through feature
FollowFeatures ==
    /\ pc = "follow"
    /\ follow_loc' = FollowLocals(tracks, right_handed, f_follow, contact_loc.upperarm_len)
    /\ pc' = "timing"
    /\ UNCHANGED <<kps_xy, phases, fps, right_handed, T, tracks, f_contact, f_follow,
                   f_unit, contact_loc, touched, result, raised>>
    /\ UNCHANGED <<maVars, storeVars>>

\* timing_frames and the return
Return ==
    /\ pc = "timing"
    /\ result' = Bundle(contact_loc, follow_loc, TimingFrames(f_contact, f_unit),
                        fps, right_handed)
    /\ pc' = "done"
    /\ UNCHANGED <<kps_xy, phases, fps, right_handed, T, tracks, f_contact, f_follow,
                   f_unit, contact_loc, follow_loc, touched, raised>>
    /\ UNCHANGED <<maVars, storeVars>>

Init ==
    /\ \E c \in Calls :
         /\ kps_xy = Frames(c.n, c.pose, c.vel, c.hole)
         /\ phases = c.phs
         /\ fps = c.fps
         /\ right_handed = c.rh
    /\ pc = "call" /\ T = 0 /\ tracks = Unset
    /\ f_contact = 0 /\ f_follow = 0 /\ f_unit = 0
    /\ contact_loc = Unset /\ follow_loc = Unset
    /\ touched = {} /\ result = Unset /\ raised = "none"
    /\ MaIdle /\ StoreIdle

Next ==
    \/ Entry
    \/ SmoothTracks
    \/ ResolveAnchors
    \/ ContactFeatures
    \/ FollowFeatures
    \/ Return

Spec == Init /\ [][Next]_vars

\* ------------------------------------------------- moving_average on its own
Coords == {<<Fix(x), Fix(y)>> : x \in 0..2, y \in 0..1}
SeriesUpTo(n) == UNION {[1..m -> Coords] : m \in 0..n}
Ks == -1..MaxK

MaCall ==
    /\ ma_pc = "call"
    /\ ma_out' = moving_average(ma_series, ma_k)
    /\ ma_pc' = "done"
    /\ UNCHANGED <<ma_series, ma_k>>
    /\ UNCHANGED <<featVars, storeVars>>

MaInit ==
    /\ ma_series \in SeriesUpTo(MaxLen)
    /\ ma_k \in Ks
    /\ ma_pc = "call"
    /\ ma_out = <<>>
    /\ FeatIdle /\ StoreIdle

MaNext == MaCall

MaSpec == MaInit /\ [][MaNext]_vars

\* ---------------------------------------------------- /analyze-from-storage
\* None, as stored in a column
Null == "null"

Videos == {"v1"}
Strokes == {"FOREHAND", "Backhand", "serve", "volley"}

\* str.lower() on the stroke types of this model
LowerStroke(s) ==
    CASE s = "FOREHAND" -> "forehand"
      [] s = "Backhand" -> "backhand"
      [] OTHER -> s

\* the stroke type compared as given (faulty variant)
StrokeKeyRaw(stroke_type) == stroke_type

\* st = (stroke_type or "").lower()

StrokeKey(stroke_type) == LowerStroke(stroke_type)

\* the mock analyzers' fixtures, by name
Analyze(st) ==
    CASE st = "forehand" -> "forehand_fixture"
      [] st = "backhand" -> "backhand_fixture"
      [] st = "serve" -> "serve_fixture"

Supported(st) == st \in {"forehand", "backhand", "serve"}

\* f"{type(e).__name__}: {str(e)}"
ErrorMessage(type, text) == type \o ": " \o text

\* table("videos").update(set).eq("id", video_id).execute(): columns not named
\* keep their value
Updated(rows, video_id, set) ==
    [rows EXCEPT ![video_id] = [col \in DOMAIN @ |-> IF col \in DOMAIN set THEN set[col] ELSE @[col]]]

Logged(r, by, set, ok) == [updates EXCEPT ![r] = Append(@, [by |-> by, set |-> set, ok |-> ok])]

\* a request arrives
Post ==
    /\ Len(reqs) < MaxReq
    /\ \E v \in Videos, st \in Strokes :
         reqs' = Append(reqs, [video_id |-> v, stroke_type |-> st, h_pc |-> "start",
                               w_pc |-> "none", response |-> "none", result |-> Null,
                               exc |-> Null])
    /\ updates' = Append(updates, <<>>)
    /\ UNCHANGED <<supabase_admin, db_fault, row>>
    /\ UNCHANGED <<featVars, maVars>>

\* analyze_from_storage up to its first update: the 500 without an admin client,
\* else the "processing" update, which may raise
HandlerProcessing(r) ==
    /\ r \in 1..Len(reqs)
    /\ reqs[r].h_pc = "start"
    /\ IF ~supabase_admin
       THEN /\ reqs' = [reqs EXCEPT ![r].h_pc = "returned", ![r].response = "500"]
            /\ UNCHANGED <<row, updates>>
       ELSE LET set == [analysis_status |-> "processing", error_message |-> Null]
            IN IF "processing" \in db_fault
               THEN /\ reqs' = [reqs EXCEPT ![r].h_pc = "except",
                                            ![r].exc = ErrorMessage("APIError", "update")]
                    /\ updates' = Logged(r, "handler", set, FALSE)
                    /\ row' = row
               ELSE /\ reqs' = [reqs EXCEPT ![r].h_pc = "spawn"]
                    /\ updates' = Logged(r, "handler", set, TRUE)
                    /\ row' = Updated(row, reqs[r].video_id, set)
    /\ UNCHANGED <<supabase_admin, db_fault>>
    /\ UNCHANGED <<featVars, maVars>>

\* t.start() and the accepted response
HandlerSpawn(r) ==
    /\ r \in 1..Len(reqs)
    /\ reqs[r].h_pc = "spawn"
    /\ reqs' = [reqs EXCEPT ![r].h_pc = "returned", ![r].response = "accepted",
                            ![r].w_pc = "start"]
    /\ UNCHANGED <<supabase_admin, db_fault, row, updates>>
    /\ UNCHANGED <<featVars, maVars>>

\* the handler's except branch: the "failed" update, its own failure swallowed
HandlerExcept(r) ==
    /\ r \in 1..Len(reqs)
    /\ reqs[r].h_pc = "except"
    /\ LET set == [analysis_status |-> "failed", error_message |-> reqs[r].exc]
       IN IF "failed" \in db_fault
          THEN updates' = Logged(r, "handler", set, FALSE) /\ row' = row
          ELSE updates' = Logged(r, "handler", set, TRUE)
               /\ row' = Updated(row, reqs[r].video_id, set)
    /\ reqs' = [reqs EXCEPT ![r].h_pc = "returned", ![r].response = "500"]
    /\ UNCHANGED <<supabase_admin, db_fault>>
    /\ UNCHANGED <<featVars, maVars>>

\* do_analysis_and_update up to its update: the analyzer chosen by stroke type,
\* or the ValueError
WorkerAnalyze(r) ==
    /\ r \in 1..Len(reqs)
    /\ reqs[r].w_pc = "start"
    /\ IF ~supabase_admin
       THEN reqs' = [reqs EXCEPT ![r].w_pc = "done"]
       ELSE LET st == StrokeKey(reqs[r].stroke_type)
            IN IF Supported(st)
               THEN reqs' = [reqs EXCEPT ![r].w_pc = "update", ![r].result = Analyze(st)]
               ELSE reqs' = [reqs EXCEPT
                               ![r].w_pc = "except",
                               ![r].exc = ErrorMessage("ValueError",
                                     "Unsupported stroke type: " \o reqs[r].stroke_type)]
    /\ UNCHANGED <<supabase_admin, db_fault, row, updates>>
    /\ UNCHANGED <<featVars, maVars>>

\* the "completed" update, which may raise
WorkerCompleted(r) ==
    /\ r \in 1..Len(reqs)
    /\ reqs[r].w_pc = "update"
    /\ LET set == [analysis |-> reqs[r].result, analysis_status |-> "completed",
                   error_message |-> Null]
       IN IF "completed" \in db_fault
          THEN /\ reqs' = [reqs EXCEPT ![r].w_pc = "except",
                                       ![r].exc = ErrorMessage("APIError", "update")]
               /\ updates' = Logged(r, "worker", set, FALSE)
               /\ row' = row
          ELSE /\ reqs' = [reqs EXCEPT ![r].w_pc = "done"]
               /\ updates' = Logged(r, "worker", set, TRUE)
               /\ row' = Updated(row, reqs[r].video_id, set)
    /\ UNCHANGED <<supabase_admin, db_fault>>
    /\ UNCHANGED <<featVars, maVars>>

\* the worker's except branch: the "failed" update, its own failure swallowed
WorkerExcept(r) ==
    /\ r \in 1..Len(reqs)
    /\ reqs[r].w_pc = "except"
    /\ LET set == [analysis_status |-> "failed", error_message |-> reqs[r].exc]
       IN IF "failed" \in db_fault
          THEN updates' = Logged(r, "worker", set, FALSE) /\ row' = row
          ELSE updates' = Logged(r, "worker", set, TRUE)
               /\ row' = Updated(row, reqs[r].video_id, set)
    /\ reqs' = [reqs EXCEPT ![r].w_pc = "done"]
    /\ UNCHANGED <<supabase_admin, db_fault>>
    /\ UNCHANGED <<featVars, maVars>>

Handler(r) == HandlerProcessing(r) \/ HandlerSpawn(r) \/ HandlerExcept(r)
Worker(r) == WorkerAnalyze(r) \/ WorkerCompleted(r) \/ WorkerExcept(r)

StoreInit ==
    /\ supabase_admin \in BOOLEAN
    /\ db_fault \in SUBSET {"processing", "completed", "failed"}
    /\ row = [v \in Videos |-> [analysis_status |-> "uploaded", error_message |-> Null,
                                analysis |-> Null]]
    /\ reqs = <<>>
    /\ updates = <<>>
    /\ FeatIdle /\ MaIdle

StoreNext ==
    \/ Post
    \/ \E r \in 1..MaxReq : Handler(r)
    \/ \E r \in 1..MaxReq : Worker(r)

\* the server runs every handler, and every started thread, to its end
StoreSpec ==
    /\ StoreInit /\ [][StoreNext]_vars
    /\ \A r \in 1..MaxReq : WF_vars(Handler(r)) /\ WF_vars(Worker(r))

\* ================================================================== claims
\* the call has resolved its three anchors
AnchorsSet == pc \in {"contact", "follow", "timing"} \/ (pc = "done" /\ T >= 1)

\* the call has returned the full bundle
Returned == pc = "done" /\ T >= 1

HasKey(m, key) == key \in DOMAIN m

ContactSpellings == {"contact", "CONTACT", "Contact"}
FollowSpellings == {"follow_through", "Follow_Through", "FOLLOW_THROUGH"}
UnitSpellings == {"unit_turn", "UNIT_TURN", "Unit_Turn"}

\* positions of the marks whose label is one of the spellings
Hits(spellings) ==
    {i \in 1..Len(phases) : HasKey(phases[i], "phase") /\ phases[i].phase \in spellings}

FirstOf(S) == CHOOSE i \in S : \A j \in S : i <= j

\* C1: for every T >= 1 and every phase list (marks with a negative frame, a
\* frame >= T or no frame included) the anchors f_contact, f_follow and f_unit
\* each lie in [0, T-1].
C1_AnchorsInRange ==
    AnchorsSet => /\ T >= 1
                  /\ f_contact \in 0..(T - 1)
                  /\ f_follow \in 0..(T - 1)
                  /\ f_unit \in 0..(T - 1)

\* C1 witness: a contact mark before frame 0 and a follow-through mark past the
\* end, both brought back into range.
C1_Witness ==
    /\ AnchorsSet
    /\ \E i \in Hits(ContactSpellings) : HasKey(phases[i], "frame") /\ phases[i].frame < 0
    /\ \E i \in Hits(FollowSpellings) : HasKey(phases[i], "frame") /\ phases[i].frame >= T
    /\ f_contact = 0
    /\ f_follow = T - 1
    /\ T > 1

\* C2: the contact anchor is the frame of the first mark in list order labelled
\* "contact" ignoring case, clamped to [0, T-1] (a first mark without a frame
\* gives the default); with no such mark it is T // 2.
C2_ContactFirstMatch ==
    AnchorsSet =>
        LET hits == Hits(ContactSpellings)
        IN IF hits = {}
           THEN f_contact = T \div 2
           ELSE LET m == phases[FirstOf(hits)]
                IN IF HasKey(m, "frame")
                   THEN f_contact = (IF m.frame < 0 THEN 0
                                     ELSE IF m.frame > T - 1 THEN T - 1 ELSE m.frame)
                   ELSE f_contact = T \div 2

\* C2 witness: two contact marks, differently cased, with different frames; the
\* anchor is the first one's frame and not the second one's.
C2_Witness ==
    /\ AnchorsSet
    /\ Len(phases) = 2
    /\ Hits(ContactSpellings) = {1, 2}
    /\ HasKey(phases[1], "frame") /\ HasKey(phases[2], "frame")
    /\ phases[1].phase # phases[2].phase
    /\ f_contact = phases[1].frame
    /\ f_contact # phases[2].frame
    /\ f_contact # T \div 2

\* C3: without a follow_through mark the follow-through anchor is
\* min(T-1, contact + 12); without a unit_turn mark the unit-turn anchor is
\* max(0, contact - 24); contact is the resolved contact anchor.  phases = []
\* and T = 100 give 50, 62 and 26.
C3_DefaultOffsets ==
    AnchorsSet =>
        /\ Hits(FollowSpellings) = {} =>
              f_follow = (IF f_contact + 12 > T - 1 THEN T - 1 ELSE f_contact + 12)
        /\ Hits(UnitSpellings) = {} =>
              f_unit = (IF f_contact - 24 < 0 THEN 0 ELSE f_contact - 24)
        /\ (phases = <<>> /\ T = 100) =>
              (f_contact = 50 /\ f_follow = 62 /\ f_unit = 26)

\* C3 witness: the empty phase list on 100 frames, where neither default
\* saturates.
C3_Witness ==
    /\ AnchorsSet
    /\ phases = <<>> /\ T = 100
    /\ f_contact = 50 /\ f_follow = 62 /\ f_unit = 26

\* C3 witness of a marked contact: the defaults follow the mark, not T // 2.
C3_WitnessMarked ==
    /\ AnchorsSet
    /\ Hits(ContactSpellings) # {} /\ Hits(FollowSpellings) = {} /\ Hits(UnitSpellings) = {}
    /\ f_contact = 30 /\ f_follow = 42 /\ f_unit = 6

\* C4: timing.unit_turn_to_contact_frames is max(0, contact anchor - unit_turn
\* anchor): never negative, and 0 whenever the unit_turn mark lies at or after
\* the contact anchor.
C4_TimingFloored ==
    Returned =>
        LET t == result.timing.unit_turn_to_contact_frames
            hits == Hits(UnitSpellings)
        IN /\ t = (IF f_contact - f_unit < 0 THEN 0 ELSE f_contact - f_unit)
           /\ t >= 0
           /\ (/\ hits # {}
               /\ HasKey(phases[FirstOf(hits)], "frame")
               /\ phases[FirstOf(hits)].frame >= f_contact) => t = 0

\* C4 witness: a unit_turn mark after the contact anchor; the difference is
\* negative and the feature is 0.
C4_Witness ==
    /\ Returned
    /\ Hits(UnitSpellings) # {}
    /\ f_unit > f_contact
    /\ result.timing.unit_turn_to_contact_frames = 0

\* the call has ended, by a return or by an exception
Ended == pc \in {"done", "raised"}

\* the frames that lack a tracked joint
Sparse == {t \in 0..(Len(kps_xy) - 1) : \E idx \in Tracked : idx \notin DOMAIN At(kps_xy, t)}

\* the contact and follow-through anchors the arguments resolve to
ArgContact == ContactAnchor(Len(kps_xy), phases)
ArgFollow == FollowAnchor(Len(kps_xy), phases, ArgContact)

\* the frames a smoothed read at frame f draws on
Window(f) == {t \in 0..(Len(kps_xy) - 1) : f - SmoothK \div 2 <= t /\ t <= f + SmoothK \div 2}

\* C5: a joint missing from a frame that no anchor measurement reads does not
\* make the computation fail: the call still returns a feature bundle.
C5_SparseFrameTolerated ==
    (/\ Ended
     /\ Sparse # {}
     /\ Sparse \cap (Window(ArgContact) \cup Window(ArgFollow)) = {})
    => (pc = "done" /\ raised = "none" /\ DOMAIN result.contact # {})

\* C6: an empty frames list returns, for any phases, fps and right_handed, the
\* neutral bundle: contact, follow_through and timing empty, meta carrying fps;
\* nothing is raised and neither a frame nor a phase mark is read.
C6_EmptyIsNeutral ==
    (Len(kps_xy) = 0 /\ pc # "call" /\ pc # "idle") =>
        /\ pc = "done"
        /\ raised = "none"
        /\ touched = {}
        /\ DOMAIN result = {"meta", "contact", "follow_through", "timing"}
        /\ DOMAIN result.contact = {}
        /\ DOMAIN result.follow_through = {}
        /\ DOMAIN result.timing = {}
        /\ DOMAIN result.meta = {"fps"}
        /\ result.meta.fps = fps

\* C6 witness: an empty sequence with a non-empty phase list, the other fps and
\* the left hand has returned.
C6_Witness ==
    /\ Len(kps_xy) = 0 /\ pc = "done"
    /\ phases # <<>> /\ ~right_handed /\ fps = 24
    /\ result.meta.fps = 24

\* the smoothed position of a joint at a frame
Smoothed(name, f) == At(tracks[MP[name]], f)

Side(part) == (IF right_handed THEN "right_" ELSE "left_") \o part
Opposite(part) == (IF right_handed THEN "left_" ELSE "right_") \o part

\* eps squared, in fixed point
EpsSq == (Eps * Den) * (Eps * Den)

\* C8: normalization never divides by a segment length at or below eps: with
\* the forearm (upper arm) at contact at or below eps the denominator is 1.0 and
\* forward_offset_norm (hand_height_norm) is the raw magnitude; above eps the
\* denominator is that length.  Nothing is raised.
C8_NormalizeGuard ==
    Returned =>
        LET el == Smoothed(Side("elbow"), f_contact)
            wr == Smoothed(Side("wrist"), f_contact)
            sh == Smoothed(Side("shoulder"), f_contact)
            hp == Smoothed(Opposite("hip"), f_contact)
            forearm == Dist2(el, wr)
            upperarm == Dist2(sh, el)
            fwd == result.contact.forward_offset_norm
            hh == result.follow_through.hand_height_norm
            raw_fwd == IF wr[1] >= hp[1] THEN wr[1] - hp[1] ELSE hp[1] - wr[1]
            raw_hh == Smoothed(Side("shoulder"), f_follow)[2] - Smoothed(Side("wrist"), f_follow)[2]
        IN /\ raised = "none"
           /\ fwd.num = raw_fwd
           /\ hh.num = raw_hh
           /\ forearm <= EpsSq => fwd.den.one
           /\ forearm > EpsSq => (~fwd.den.one /\ fwd.den.len2 = forearm)
           /\ upperarm <= EpsSq => hh.den.one
           /\ upperarm > EpsSq => (~hh.den.one /\ hh.den.len2 = upperarm)

\* C8 witness: elbow and wrist coincide at contact and the upper arm is exactly
\* eps long; both features are the raw magnitudes, and the offset is not 0.
C8_Witness ==
    /\ Returned
    /\ Dist2(Smoothed(Side("elbow"), f_contact), Smoothed(Side("wrist"), f_contact)) = 0
    /\ Dist2(Smoothed(Side("shoulder"), f_contact), Smoothed(Side("elbow"), f_contact)) = EpsSq
    /\ result.contact.forward_offset_norm.den.one
    /\ result.contact.forward_offset_norm.num > 0
    /\ result.follow_through.hand_height_norm.den.one

\* C9: the features are functions of these smoothed reads only: the lead wrist,
\* elbow and shoulder and the opposite hip at the contact anchor (right wrist,
\* elbow, shoulder and left hip when right_handed, mirrored otherwise), both
\* shoulders at the contact anchor, and the lead wrist and shoulder at the
\* follow-through anchor; both denominators are measured at the contact anchor.
C9_ReadsAtAnchors ==
    Returned =>
        LET el == Smoothed(Side("elbow"), f_contact)
            wr == Smoothed(Side("wrist"), f_contact)
            sh == Smoothed(Side("shoulder"), f_contact)
            hp == Smoothed(Opposite("hip"), f_contact)
            wr_f == Smoothed(Side("wrist"), f_follow)
            sh_f == Smoothed(Side("shoulder"), f_follow)
        IN /\ result.contact.forward_offset_norm = Normalize(Abs(wr[1] - hp[1]), Dist2(el, wr))
           /\ result.contact.torso_rotation_deg =
                 AbsAngle(ShoulderLineAngleDeg(Smoothed("left_shoulder", f_contact),
                                               Smoothed("right_shoulder", f_contact)))
           /\ result.contact.elbow_flex_deg = AngleAt(el, sh, wr)
           /\ result.follow_through.hand_height_norm =
                 Normalize(-(wr_f[2] - sh_f[2]), Dist2(sh, el))
           /\ result.meta.norm_segments_px = [forearm |-> Dist2(el, wr), upperarm |-> Dist2(sh, el)]

\* C9 witness: a left-handed call whose follow-through anchor differs from its
\* contact anchor, whose upper arm differs between the two frames, and whose
\* two hips and two wrists differ at contact.
C9_Witness ==
    /\ Returned
    /\ ~right_handed
    /\ f_follow # f_contact
    /\ Dist2(Smoothed("left_shoulder", f_follow), Smoothed("left_elbow", f_follow))
         # Dist2(Smoothed("left_shoulder", f_contact), Smoothed("left_elbow", f_contact))
    /\ Smoothed("left_hip", f_contact)[1] # Smoothed("right_hip", f_contact)[1]
    /\ Smoothed("left_wrist", f_contact) # Smoothed("right_wrist", f_contact)
    /\ ~result.follow_through.hand_height_norm.den.one

RECURSIVE SumOver(_, _, _)
SumOver(series, W, coord) ==
    IF W = {} THEN 0
    ELSE LET j == CHOOSE j \in W : TRUE
         IN At(series, j)[coord] + SumOver(series, W \ {j}, coord)

\* C7: moving_average(series, k) with k <= 1 returns the series unchanged; with
\* k > 1 it returns a series of the same length whose element i is the mean of
\* exactly the elements j with max(0, i - k//2) <= j <= min(T-1, i + k//2),
\* divided by their number, which is never 0.
C7_CentredMean ==
    ma_pc = "done" =>
        LET n == Len(ma_series)
            r == ma_k \div 2
        IN /\ ma_k <= 1 => ma_out = ma_series
           /\ ma_k > 1 =>
                /\ Len(ma_out) = n
                /\ \A i \in 0..(n - 1) :
                     LET lo == IF i - r < 0 THEN 0 ELSE i - r
                         hi == IF i + r > n - 1 THEN n - 1 ELSE i + r
                         W == lo..hi
                     IN /\ W # {}
                        /\ At(ma_out, i)[1] * Cardinality(W) = SumOver(ma_series, W, 1)
                        /\ At(ma_out, i)[2] * Cardinality(W) = SumOver(ma_series, W, 2)

\* C7 witness: a window of 3 on four points: the first element averages two
\* samples, the second three, and the result differs from the input.
C7_Witness ==
    /\ ma_pc = "done"
    /\ ma_k = 3
    /\ Len(ma_series) = 4
    /\ At(ma_out, 0)[1] * 2 = At(ma_series, 0)[1] + At(ma_series, 1)[1]
    /\ At(ma_out, 0) # At(ma_out, 1)
    /\ At(ma_out, 0) # At(ma_series, 0)
    /\ At(ma_out, 3) # At(ma_series, 3)

\* the update calls made for request r, in order
Mine(r) == updates[r]

SupportedSpellings ==
    {"forehand", "FOREHAND", "Forehand", "backhand", "BACKHAND", "Backhand",
     "serve", "SERVE", "Serve"}

FixtureOf(stroke_type) ==
    IF stroke_type \in {"forehand", "FOREHAND", "Forehand"} THEN "forehand_fixture"
    ELSE IF stroke_type \in {"backhand", "BACKHAND", "Backhand"} THEN "backhand_fixture"
    ELSE "serve_fixture"

Terminal == {"completed", "failed"}

\* every handler has returned and every started worker has ended
Quiet == \A r \in 1..Len(reqs) : reqs[r].h_pc = "returned" /\ reqs[r].w_pc \in {"none", "done"}

\* with the admin client configured and every update succeeding: "processing"
\* is written by the handler before the worker starts; the worker writes one
\* terminal status, "completed" with the analysis and a null error_message for
\* a supported stroke type, "failed" with an error message otherwise
DispatchSafe ==
    (supabase_admin /\ db_fault = {}) =>
        /\ \A r \in 1..Len(reqs) :
             LET mine == Mine(r)
                 q == reqs[r]
             IN /\ q.w_pc # "none" =>
                     /\ q.response = "accepted"
                     /\ Len(mine) >= 1
                     /\ mine[1].by = "handler"
                     /\ mine[1].set = [analysis_status |-> "processing", error_message |-> Null]
                /\ Len(mine) <= 2
                /\ \A i \in 2..Len(mine) :
                     mine[i].by = "worker" /\ mine[i].set.analysis_status \in Terminal
                /\ \A i \in 1..Len(mine) :
                     mine[i].set.analysis_status = "completed" =>
                        q.stroke_type \in SupportedSpellings
                /\ q.w_pc = "done" =>
                     /\ Len(mine) = 2
                     /\ IF q.stroke_type \in SupportedSpellings
                        THEN mine[2].set = [analysis |-> FixtureOf(q.stroke_type),
                                            analysis_status |-> "completed",
                                            error_message |-> Null]
                        ELSE /\ mine[2].set.analysis_status = "failed"
                             /\ mine[2].set.error_message # Null
        /\ Quiet => \A r \in 1..Len(reqs) :
                       reqs[r].response = "accepted" =>
                          row[reqs[r].video_id].analysis_status \in Terminal

\* an accepted request's worker ends, leaving a terminal status
DispatchLive ==
    \A r \in 1..MaxReq :
        (r <= Len(reqs) /\ reqs[r].response = "accepted" /\ db_fault = {})
        ~> (/\ r <= Len(reqs)
            /\ reqs[r].w_pc = "done"
            /\ row[reqs[r].video_id].analysis_status \in Terminal)

\* C10: for a request accepted by /analyze-from-storage (admin client
\* configured, updates succeeding) "processing" is written before the worker
\* starts, and the worker afterwards writes exactly one terminal status:
\* "completed" with the analysis and a null error_message when stroke_type is
\* forehand, backhand or serve ignoring case, else "failed" with an error
\* message; the status never stays "processing" and "completed" is never
\* written for an unsupported stroke type.
C10_Dispatch == []DispatchSafe /\ DispatchLive

\* C10 witness: two accepted requests for one video, one FOREHAND and completed,
\* one volley and failed, every update having succeeded.
C10_Witness ==
    /\ supabase_admin /\ db_fault = {}
    /\ Len(reqs) = 2 /\ Quiet
    /\ reqs[1].video_id = reqs[2].video_id
    /\ reqs[1].stroke_type = "FOREHAND" /\ reqs[1].response = "accepted"
    /\ reqs[2].stroke_type = "volley" /\ reqs[2].response = "accepted"
    /\ Mine(1)[2].set.analysis_status = "completed"
    /\ Mine(2)[2].set.analysis_status = "failed"
    /\ Len(Mine(1)) = 2 /\ Len(Mine(2)) = 2

====
